---- MODULE Spec2Model ----
(***************************************************************************)
(* SM3 (GM/T 0004-2012) as implemented in this repository:                 *)
(*   - src/sm3.c / src/sm3.h : the streaming API (sm3_init, sm3_update,    *)
(*     sm3_final), the one-shot wrappers and the file / string helpers;    *)
(*   - src/sm3.cpp           : the whole-message variant (sm3_padding,     *)
(*     compress over every block of the padded buffer).                    *)
(*                                                                         *)
(* A uint32_t is the pair <<hi, lo>> of its 16-bit halves (the model       *)
(* checker's integers are narrower than 2^32); every operation on words is *)
(* computed modulo 2^32 on the halves.  A byte is an integer in 0..255.    *)
(***************************************************************************)
EXTENDS Integers, Sequences, FiniteSets, TLC

(***************************************************************************)
(* Machine arithmetic                                                      *)
(***************************************************************************)

\* bit-by-bit AND of two n-bit integers
RECURSIVE BitAnd(_, _, _)
BitAnd(a, b, n) ==
    IF n = 0 THEN 0
    ELSE (a % 2) * (b % 2) + 2 * BitAnd(a \div 2, b \div 2, n - 1)

\* the C operator & on two bytes, tabulated
AndTab == [a \in 0..255 |-> [b \in 0..255 |-> BitAnd(a, b, 8)]]

And16(a, b) == 256 * AndTab[a \div 256][b \div 256] + AndTab[a % 256][b % 256]
Xor16(a, b) == a + b - 2 * And16(a, b)
Or16(a, b)  == a + b - And16(a, b)

Pow2 == [n \in 0..16 |-> 2 ^ n]

\* uint32_t operators &, |, ^, ~, + (wrapping)
AND(x, y) == <<And16(x[1], y[1]), And16(x[2], y[2])>>
OR(x, y)  == <<Or16(x[1], y[1]), Or16(x[2], y[2])>>
XOR(x, y) == <<Xor16(x[1], y[1]), Xor16(x[2], y[2])>>
NOT(x)    == <<65535 - x[1], 65535 - x[2]>>
ADD(x, y) ==
    LET lo == x[2] + y[2]
    IN  <<(x[1] + y[1] + (lo \div 65536)) % 65536, lo % 65536>>

\* x << n and x >> n for a shift count within the word, 0 <= n <= 31
SHL(x, n) ==
    IF n >= 16
    THEN <<(x[2] * Pow2[n - 16]) % 65536, 0>>
    ELSE <<((x[1] * Pow2[n]) % 65536) + ((x[2] * Pow2[n]) \div 65536),
           (x[2] * Pow2[n]) % 65536>>
SHR(x, n) ==
    IF n >= 16
    THEN <<0, x[1] \div Pow2[n - 16]>>
    ELSE <<x[1] \div Pow2[n],
           (x[2] \div Pow2[n]) + ((x[1] % Pow2[n]) * Pow2[16 - n])>>

Zero32 == <<0, 0>>

(***************************************************************************)
(* A shift of a uint32_t by a count outside 0..31 is undefined in C.  The  *)
(* builds of this code produce one of two results: the count reduced       *)
(* modulo 32 (x86 shl/shr, a rotate instruction), or 0 (shifters that      *)
(* saturate).  sh names the build's behaviour.                             *)
(***************************************************************************)
ShiftModes == {"wrap", "zero"}

ShiftLeft(x, n, sh) ==
    IF n \in 0..31 THEN SHL(x, n)
    ELSE IF sh = "wrap" THEN SHL(x, n % 32) ELSE Zero32
ShiftRight(x, n, sh) ==
    IF n \in 0..31 THEN SHR(x, n)
    ELSE IF sh = "wrap" THEN SHR(x, n % 32) ELSE Zero32

\* sm3.h: #define ROTLEFT(x, n) (((x) << (n)) | ((x) >> (32 - (n))))
ROTLEFT(x, n, sh) == OR(ShiftLeft(x, n, sh), ShiftRight(x, 32 - n, sh))

\* a 32-bit constant from its two 16-bit halves
Word(hi, lo) == <<hi, lo>>

(***************************************************************************)
(* src/sm3.c                                                               *)
(***************************************************************************)
SM3_BLOCK_SIZE == 64
SM3_DIGEST_SIZE == 32
SM3_HASH_SIZE == 65

SM3_IV ==
    << Word(29568, 5743),  Word(18708, 45753), Word(5924, 17111),  Word(55946, 1536),
       Word(43375, 12476), Word(5681, 14506),  Word(58253, 61005), Word(45307, 3662) >>

\* SM3_T[j], j = 0..63
SM3_T(j) == IF j < 16 THEN Word(31180, 17689) ELSE Word(31367, 40330)

ff(x, y, z, j) ==
    IF j >= 0 /\ j <= 15
    THEN XOR(XOR(x, y), z)
    ELSE OR(OR(AND(x, y), AND(x, z)), AND(y, z))

gg(x, y, z, j) ==
    IF j >= 0 /\ j <= 15
    THEN XOR(XOR(x, y), z)
    ELSE OR(AND(x, y), AND(NOT(x), z))

p0(x, sh) == XOR(XOR(x, ROTLEFT(x, 9, sh)), ROTLEFT(x, 17, sh))
p1(x, sh) == XOR(XOR(x, ROTLEFT(x, 15, sh)), ROTLEFT(x, 23, sh))

\* 64 zero bytes (memset(ctx->buffer, 0, SM3_BLOCK_SIZE))
ZeroBuffer == SubSeq([i \in 1..SM3_BLOCK_SIZE |-> 0], 1, SM3_BLOCK_SIZE)

\* a faulty sm3_init that loads the IV and zeroes the count but leaves the
\* pending bytes as they were
sm3_init_KeepBuffer(ctx) == [state |-> SM3_IV, bitlen |-> 0, buffer |-> ctx.buffer]

\* struct SM3_CTX {state[8], bitlen, buffer[64]}; buffer[i] of the code is
\* buffer[i + 1] here.  sm3_init overwrites all three fields of any context.
sm3_init(ctx) == [state |-> SM3_IV, bitlen |-> 0, buffer |-> ZeroBuffer]

\* W[0..15]: the block's bytes as big-endian words (W[j] of the code is W[j + 1])
ParseBlock(block) ==
    SubSeq([j \in 1..16 |-> Word(block[4 * j - 3] * 256 + block[4 * j - 2],
                                 block[4 * j - 1] * 256 + block[4 * j])], 1, 16)

\* W[j] for one j in 16..67, appended to W = W[0..j-1]
ExpandStep(W, j, sh) ==
    Append(W, XOR(XOR(p1(XOR(XOR(W[j - 16 + 1], W[j - 9 + 1]),
                             ROTLEFT(W[j - 3 + 1], 15, sh)), sh),
                      ROTLEFT(W[j - 13 + 1], 7, sh)),
                  W[j - 6 + 1]))

\* for (j = lo; j <= hi; j++) W[j] = ...; the range is split in halves so
\* that the evaluation nests no deeper than the logarithm of its length, and
\* each half starts from the evaluated result of the one before it
RECURSIVE ExpandW(_, _, _, _)
ExpandW(W, lo, hi, sh) ==
    IF lo > hi \/ Len(W) # lo THEN W
    ELSE IF lo = hi THEN ExpandStep(W, lo, sh)
    ELSE ExpandW(ExpandW(W, lo, (lo + hi) \div 2, sh), ((lo + hi) \div 2) + 1, hi, sh)

\* the eight assignments that end a round, in the order of the code; V is
\* <<A, B, C, D, E, F, G, H>> as the assignments before have left it
AssignD(V) == [V EXCEPT ![4] = V[3]]
AssignC(V, sh) == [V EXCEPT ![3] = ROTLEFT(V[2], 9, sh)]
AssignB(V) == [V EXCEPT ![2] = V[1]]
AssignA(V, TT1) == [V EXCEPT ![1] = TT1]
AssignH(V) == [V EXCEPT ![8] = V[7]]
AssignG(V, sh) == [V EXCEPT ![7] = ROTLEFT(V[6], 19, sh)]
AssignF(V) == [V EXCEPT ![6] = V[5]]
AssignE(V, TT2, sh) == [V EXCEPT ![5] = p0(TT2, sh)]

\* a faulty order of the assignments: B = A before C = ROTLEFT(B, 9), so
\* that C is computed from the B already overwritten
RoundAssign_BFirst(V, TT1, TT2, sh) ==
    AssignE(AssignF(AssignG(AssignH(AssignA(AssignC(AssignB(AssignD(V)), sh), TT1)), sh)),
            TT2, sh)

\* D = C; C = ROTLEFT(B, 9); B = A; A = TT1; H = G; G = ROTLEFT(F, 19); F = E;
\* E = p0(TT2), one after the other
RoundAssign(V, TT1, TT2, sh) ==
    AssignE(AssignF(AssignG(AssignH(AssignA(AssignB(AssignC(AssignD(V), sh)), TT1)), sh)),
            TT2, sh)

\* one pass of the 64-round loop body; V = <<A, B, C, D, E, F, G, H>>,
\* W1[j] = W[j] ^ W[j + 4]
Round(V, W, j, sh) ==
    LET A == V[1]
        B == V[2]
        C == V[3]
        D == V[4]
        E == V[5]
        F == V[6]
        G == V[7]
        H == V[8]
        SS1 == ROTLEFT(ADD(ADD(ROTLEFT(A, 12, sh), E), ROTLEFT(SM3_T(j), j, sh)), 7, sh)
        SS2 == XOR(SS1, ROTLEFT(A, 12, sh))
        W1j == XOR(W[j + 1], W[j + 4 + 1])
        TT1 == ADD(ADD(ADD(ff(A, B, C, j), D), SS2), W1j)
        TT2 == ADD(ADD(ADD(gg(E, F, G, j), H), SS1), W[j + 1])
    IN  RoundAssign(V, TT1, TT2, sh)

\* for (j = lo; j <= hi; j++) over the eight working variables V
RECURSIVE Rounds(_, _, _, _, _)
Rounds(V, W, lo, hi, sh) ==
    IF lo > hi \/ Len(V) # 8 THEN V
    ELSE IF lo = hi THEN Round(V, W, lo, sh)
    ELSE Rounds(Rounds(V, W, lo, (lo + hi) \div 2, sh), W, ((lo + hi) \div 2) + 1, hi, sh)

\* ctx->state[i] ^= A..H
XorState(state, V) ==
    << XOR(state[1], V[1]), XOR(state[2], V[2]), XOR(state[3], V[3]),
       XOR(state[4], V[4]), XOR(state[5], V[5]), XOR(state[6], V[6]),
       XOR(state[7], V[7]), XOR(state[8], V[8]) >>

\* a faulty end of sm3_compress that also counts the block it compressed
CompressStore_CountsBlock(ctx, V) ==
    [ctx EXCEPT !.state = XorState(ctx.state, V), !.bitlen = ctx.bitlen + 512]

\* the stores of sm3_compress into *ctx: the eight ctx->state[i] ^= .. and
\* nothing else
CompressStore(ctx, V) == [ctx EXCEPT !.state = XorState(ctx.state, V)]

\* sm3_compress(ctx, block): the new ctx->state; nothing else of ctx is written
sm3_compress(state, block, sh) ==
    XorState(state, Rounds(state, ExpandW(ParseBlock(block), 16, 67, sh), 0, 63, sh))

\* a faulty loop body that restarts the buffer when it is full without
\* compressing it
UpdateStep_NoCompress(s, byte, sh) ==
    IF s.idx + 1 = SM3_BLOCK_SIZE
    THEN [c |-> [s.c EXCEPT !.buffer = [s.c.buffer EXCEPT ![s.idx + 1] = byte]],
          idx |-> 0, blocks |-> s.blocks, wr |-> s.wr \cup {s.idx}]
    ELSE [c |-> [s.c EXCEPT !.buffer = [s.c.buffer EXCEPT ![s.idx + 1] = byte]],
          idx |-> s.idx + 1, blocks |-> s.blocks, wr |-> s.wr \cup {s.idx}]

\* a faulty loop body that counts the byte but does not store it
UpdateStep_DropByte(s, byte, sh) ==
    IF s.idx + 1 = SM3_BLOCK_SIZE
    THEN [c |-> [s.c EXCEPT !.state = sm3_compress(s.c.state, s.c.buffer, sh)],
          idx |-> 0, blocks |-> Append(s.blocks, s.c.buffer), wr |-> s.wr]
    ELSE [c |-> s.c, idx |-> s.idx + 1, blocks |-> s.blocks, wr |-> s.wr]

\* a faulty loop body that compresses the full buffer but goes on filling
\* behind it
UpdateStep_NoReset(s, byte, sh) ==
    IF s.idx + 1 = SM3_BLOCK_SIZE
    THEN [c |-> [s.c EXCEPT !.buffer = [s.c.buffer EXCEPT ![s.idx + 1] = byte],
                            !.state = sm3_compress(s.c.state,
                                          [s.c.buffer EXCEPT ![s.idx + 1] = byte], sh)],
          idx |-> s.idx + 1,
          blocks |-> Append(s.blocks, [s.c.buffer EXCEPT ![s.idx + 1] = byte]),
          wr |-> s.wr \cup {s.idx}]
    ELSE [c |-> IF s.idx < SM3_BLOCK_SIZE
                THEN [s.c EXCEPT !.buffer = [s.c.buffer EXCEPT ![s.idx + 1] = byte]]
                ELSE s.c,
          idx |-> s.idx + 1, blocks |-> s.blocks, wr |-> s.wr \cup {s.idx}]

\* one pass of the byte loop of sm3_update: s = [c: the context, idx: the
\* fill position, blocks: the blocks compressed so far, wr: the indices of
\* ctx->buffer written so far], byte the data byte
UpdateStep(s, byte, sh) ==
    LET b == [s.c.buffer EXCEPT ![s.idx + 1] = byte]
    IN  IF s.idx + 1 = SM3_BLOCK_SIZE
        THEN [c |-> [s.c EXCEPT !.buffer = b, !.state = sm3_compress(s.c.state, b, sh)],
              idx |-> 0, blocks |-> Append(s.blocks, b), wr |-> s.wr \cup {s.idx}]
        ELSE [c |-> [s.c EXCEPT !.buffer = b], idx |-> s.idx + 1, blocks |-> s.blocks,
              wr |-> s.wr \cup {s.idx}]

\* for (i = lo; i <= hi; i++) over data (data[i - 1] of the code is data[i])
RECURSIVE UpdateLoop(_, _, _, _, _)
UpdateLoop(s, data, lo, hi, sh) ==
    IF lo > hi \/ s.idx < 0 THEN s
    ELSE IF lo = hi THEN UpdateStep(s, data[lo], sh)
    ELSE UpdateLoop(UpdateLoop(s, data, lo, (lo + hi) \div 2, sh),
                    data, ((lo + hi) \div 2) + 1, hi, sh)

\* a faulty sm3_update that starts every call at the head of the buffer,
\* forgetting the bytes pending from the call before
sm3_update_FromHead(ctx, data, sh) ==
    [ctx |-> UpdateLoop([c |-> [ctx EXCEPT !.bitlen = ctx.bitlen + Len(data) * 8],
                         idx |-> 0, blocks |-> << >>, wr |-> {}],
                        data, 1, Len(data), sh).c,
     blocks |-> UpdateLoop([c |-> [ctx EXCEPT !.bitlen = ctx.bitlen + Len(data) * 8],
                            idx |-> 0, blocks |-> << >>, wr |-> {}],
                           data, 1, Len(data), sh).blocks,
     wr |-> {}]

\* what sm3_update leaves: the context, the blocks it handed to sm3_compress,
\* in order, and the indices of ctx->buffer it wrote
UpdateResult(s) == [ctx |-> s.c, blocks |-> s.blocks, wr |-> s.wr]

\* sm3_update(ctx, data, len)
sm3_update(ctx, data, sh) ==
    UpdateResult(UpdateLoop([c |-> [ctx EXCEPT !.bitlen = ctx.bitlen + Len(data) * 8],
                             idx |-> (ctx.bitlen \div 8) % SM3_BLOCK_SIZE,
                             blocks |-> << >>,
                             wr |-> {}],
                            data, 1, Len(data), sh))

\* a faulty zero fill that leaves the buffer as it is
ZeroFill_Keep(buffer, idx, to) == buffer

\* while (idx < to) buffer[idx++] = 0x00
ZeroFill(buffer, idx, to) ==
    IF idx < to
    THEN SubSeq(buffer, 1, idx) \o SubSeq(ZeroBuffer, 1, to - idx)
         \o SubSeq(buffer, to + 1, SM3_BLOCK_SIZE)
    ELSE buffer

\* (bitlen >> (56 - 8 * i)) & 0xFF of the 64-bit bitlen, i = 0..7; bitlen is
\* below 2^31 in every state of this model, so a shift by 31 or more leaves 0
LenByte(bitlen, i) ==
    IF 56 - 8 * i >= 31 THEN 0 ELSE (bitlen \div (2 ^ (56 - 8 * i))) % 256

\* for (i = 0; i < 8; i++) buffer[56 + i] = ...
PutLength(buffer, bitlen) ==
    SubSeq(buffer, 1, 56)
    \o << LenByte(bitlen, 0), LenByte(bitlen, 1), LenByte(bitlen, 2), LenByte(bitlen, 3),
          LenByte(bitlen, 4), LenByte(bitlen, 5), LenByte(bitlen, 6), LenByte(bitlen, 7) >>

\* the four bytes written for one state word: >> 24, >> 16, >> 8, >> 0, each & 0xFF
WordBytes(w) == << w[1] \div 256, w[1] % 256, w[2] \div 256, w[2] % 256 >>

\* a faulty serialization: each word least significant byte first
Serialize_LittleEndian(state) ==
    << state[1][2] % 256, state[1][2] \div 256, state[1][1] % 256, state[1][1] \div 256,
       state[2][2] % 256, state[2][2] \div 256, state[2][1] % 256, state[2][1] \div 256,
       state[3][2] % 256, state[3][2] \div 256, state[3][1] % 256, state[3][1] \div 256,
       state[4][2] % 256, state[4][2] \div 256, state[4][1] % 256, state[4][1] \div 256,
       state[5][2] % 256, state[5][2] \div 256, state[5][1] % 256, state[5][1] \div 256,
       state[6][2] % 256, state[6][2] \div 256, state[6][1] % 256, state[6][1] \div 256,
       state[7][2] % 256, state[7][2] \div 256, state[7][1] % 256, state[7][1] \div 256,
       state[8][2] % 256, state[8][2] \div 256, state[8][1] % 256, state[8][1] \div 256 >>

\* for (i = 0; i < 8; i++) digest[i * 4 ..] = ...
Serialize(state) ==
    WordBytes(state[1]) \o WordBytes(state[2]) \o WordBytes(state[3]) \o WordBytes(state[4])
    \o WordBytes(state[5]) \o WordBytes(state[6]) \o WordBytes(state[7]) \o WordBytes(state[8])

\* sm3_final, the end: the digest is written from the state st3 left by the
\* compression of the last block b3; blocks are the blocks compressed before
\* it, wr the indices of ctx->buffer written
FinalOutput(ctx, b3, st3, blocks, wr) ==
    [ctx    |-> [ctx EXCEPT !.buffer = b3, !.state = st3],
     digest |-> Serialize(st3),
     blocks |-> Append(blocks, b3),
     wr     |-> wr]

\* sm3_final after steps 3 and 4: b3 is the buffer zero-filled to 56 with the
\* length in its last 8 bytes, st the state it is compressed into
FinalLast(ctx, st, b3, blocks, wr, sh) ==
    FinalOutput(ctx, b3, sm3_compress(st, b3, sh), blocks, wr)

\* sm3_final, step 2 taken (idx > 56): the zero-filled block b2 is compressed
\* and idx is reset to 0; steps 3 and 4 then write indices 0..55 and 56..63
FinalSpill(ctx, b2, wr, sh) ==
    FinalLast(ctx, sm3_compress(ctx.state, b2, sh),
              PutLength(ZeroFill(b2, 0, 56), ctx.bitlen), << b2 >>,
              wr \cup (0..55) \cup (56..63), sh)

\* a faulty step 2 that spills as soon as the length no longer fits after one
\* more byte (idx > 55)
FinalPad_Spill56(ctx, b1, idx, wr, sh) ==
    IF idx > 55
    THEN FinalSpill(ctx, ZeroFill(b1, idx, SM3_BLOCK_SIZE), wr \cup (idx..63), sh)
    ELSE FinalLast(ctx, ctx.state, PutLength(ZeroFill(b1, idx, 56), ctx.bitlen), << >>,
                   wr \cup (idx..55) \cup (56..63), sh)

\* sm3_final after step 1: b1 is the buffer with 0x80 appended, idx the
\* position after it, wr the index the 0x80 was written at; step 2 writes
\* indices idx..63, steps 3 and 4 idx..55 and 56..63
FinalPad(ctx, b1, idx, wr, sh) ==
    IF idx > 56
    THEN FinalSpill(ctx, ZeroFill(b1, idx, SM3_BLOCK_SIZE), wr \cup (idx..63), sh)
    ELSE FinalLast(ctx, ctx.state, PutLength(ZeroFill(b1, idx, 56), ctx.bitlen), << >>,
                   wr \cup (idx..55) \cup (56..63), sh)

\* sm3_final(ctx, digest): the context after the call, the digest written,
\* the blocks handed to sm3_compress, in order, and the indices of
\* ctx->buffer written
sm3_final(ctx, sh) ==
    FinalPad(ctx,
             [ctx.buffer EXCEPT ![((ctx.bitlen \div 8) % SM3_BLOCK_SIZE) + 1] = 128],
             ((ctx.bitlen \div 8) % SM3_BLOCK_SIZE) + 1,
             {(ctx.bitlen \div 8) % SM3_BLOCK_SIZE}, sh)

\* an uninitialized SM3_CTX holds whatever the memory held
AllOnes == SubSeq([i \in 1..SM3_BLOCK_SIZE |-> 255], 1, SM3_BLOCK_SIZE)
GarbageCtx ==
    { [state |-> << Zero32, Zero32, Zero32, Zero32, Zero32, Zero32, Zero32, Zero32 >>,
       bitlen |-> 0, buffer |-> AllOnes],
      [state |-> << Word(65535, 65535), Word(1, 2), Word(3, 4), Word(5, 6),
                    Word(7, 8), Word(9, 10), Word(11, 12), Word(13, 14) >>,
       bitlen |-> 8 * 77, buffer |-> AllOnes] }

\* what one sm3_hash call of sm3.c leaves: the output written, and the local
\* context's final state and the blocks compressed (both gone on return)
HashResult(ublocks, f) ==
    [output |-> f.digest, state |-> f.ctx.state, blocks |-> ublocks \o f.blocks]

HashFinal(u, sh) == HashResult(u.blocks, sm3_final(u.ctx, sh))

\* sm3_hash(input, input_len, output) of sm3.c: a local context, then
\* init, update, final
sm3_hash(input, sh) ==
    HashFinal(sm3_update(sm3_init(CHOOSE g \in GarbageCtx : TRUE), input, sh), sh)

\* a C string's terminator, and the characters "%02x" prints
NUL == ""
HexDigits == << "0", "1", "2", "3", "4", "5", "6", "7",
               "8", "9", "a", "b", "c", "d", "e", "f" >>

\* what snprintf(p, 3, "%02x", byte) stores at p[0..2]
Hex02x(byte) == << HexDigits[(byte \div 16) + 1], HexDigits[(byte % 16) + 1], NUL >>

\* static char hash_str[SM3_HASH_SIZE]: static storage starts zeroed
\* (hash_str[k] of the code is hash_str[k + 1] here)
HashStrInit == SubSeq([k \in 1..SM3_HASH_SIZE |-> NUL], 1, SM3_HASH_SIZE)

\* one pass of the loop of sm3_hash_string:
\* snprintf(hash_str + i * 2, 3, "%02x", digest[i])
FormatByte(buf, dg, i) ==
    SubSeq(buf, 1, 2 * i) \o Hex02x(dg[i + 1]) \o SubSeq(buf, 2 * i + 4, SM3_HASH_SIZE)

\* for (i = lo; i <= hi; i++) snprintf(...)
RECURSIVE FormatLoop(_, _, _, _)
FormatLoop(buf, dg, lo, hi) ==
    IF lo > hi \/ Len(buf) # SM3_HASH_SIZE THEN buf
    ELSE IF lo = hi THEN FormatByte(buf, dg, lo)
    ELSE FormatLoop(FormatLoop(buf, dg, lo, (lo + hi) \div 2), dg, ((lo + hi) \div 2) + 1, hi)

\* hash_str[SM3_HASH_SIZE - 1] = '\0'
Terminate(buf) == [buf EXCEPT ![SM3_HASH_SIZE] = NUL]

\* sm3_hash_string(input, input_len): hash_str after the call; the pointer
\* returned is always &hash_str[0]
sm3_hash_string(buf, input, sh) ==
    Terminate(FormatLoop(buf, sm3_hash(input, sh).output, 0, SM3_DIGEST_SIZE - 1))

\* the string a reader of the char array buf sees from buf[k] on: the
\* characters before the first NUL
RECURSIVE CString(_, _)
CString(buf, k) ==
    IF k > Len(buf) \/ buf[k] = NUL THEN "" ELSE buf[k] \o CString(buf, k + 1)

\* unsigned char buffer[4096] of sm3_file_hash: the most one fread returns
FILE_BUFFER_SIZE == 4096

(***************************************************************************)
(* src/sm3.cpp: the whole-message variant.  Its SM3_BLOCK_SIZE is the 64   *)
(* of sm3.h; its SM3_HASH_SIZE is the digest length, not sm3.h's 65.       *)
(***************************************************************************)
SM3_HASH_SIZE_cpp == 32
SM3_IV_NUM == 8
SM3_ITER_ROUNDS == 64

\* T[j], j = 0..63
T(j) == IF j < 16 THEN Word(31180, 17689) ELSE Word(31367, 40330)

IV ==
    << Word(29568, 5743),  Word(18708, 45753), Word(5924, 17111),  Word(55946, 1536),
       Word(43375, 12476), Word(5681, 14506),  Word(58253, 61005), Word(45307, 3662) >>

\* #define ROL(x, n) (((x) << (n)) | ((x) >> (32 - (n))))
ROL(x, n, sh) == OR(ShiftLeft(x, n, sh), ShiftRight(x, 32 - n, sh))

FF(X, Y, Z, j) ==
    IF j < 16 THEN XOR(XOR(X, Y), Z) ELSE OR(OR(AND(X, Y), AND(X, Z)), AND(Y, Z))

GG(X, Y, Z, j) ==
    IF j < 16 THEN XOR(XOR(X, Y), Z) ELSE OR(AND(X, Y), AND(NOT(X), Z))

P0(X, sh) == XOR(XOR(X, ROL(X, 9, sh)), ROL(X, 17, sh))
P1(X, sh) == XOR(XOR(X, ROL(X, 15, sh)), ROL(X, 23, sh))

\* the widths of size_t in the builds of this code
SizeBits == {32, 64}

\* (bit_len >> c) & 0xFF for a size_t bit_len of sz bits.  c >= sz is an
\* out-of-range shift (see ShiftModes).  bit_len is below 2^31 in every state
\* of this model, so an in-range shift by 31 or more leaves 0.
PadLenByte(bit_len, c, sz, sh) ==
    IF c < sz
    THEN IF c >= 31 THEN 0 ELSE (bit_len \div (2 ^ c)) % 256
    ELSE IF sh = "wrap" THEN (bit_len \div (2 ^ (c % sz))) % 256 ELSE 0

\* the buffer sm3_padding fills: memset 0, memcpy input, 0x80 at [len], and
\* for (i = 0; i < 8; i++) output[out_len - 8 + i] = (bit_len >> ((7 - i) * 8)) & 0xFF
PaddedMessage(input, out_len, sz, sh) ==
    input \o << 128 >> \o SubSeq(ZeroBuffer, 1, out_len - Len(input) - 9)
    \o << PadLenByte(Len(input) * 8, 56, sz, sh), PadLenByte(Len(input) * 8, 48, sz, sh),
          PadLenByte(Len(input) * 8, 40, sz, sh), PadLenByte(Len(input) * 8, 32, sz, sh),
          PadLenByte(Len(input) * 8, 24, sz, sh), PadLenByte(Len(input) * 8, 16, sz, sh),
          PadLenByte(Len(input) * 8, 8, sz, sh),  PadLenByte(Len(input) * 8, 0, sz, sh) >>

\* sm3_padding(input, len, &output, &out_len), called with *output = NULL and
\* *out_len = 0 as sm3_hash does.  null: input is the null pointer;
\* mallocOk: whether malloc returns memory.
sm3_padding(input, null, mallocOk, sz, sh) ==
    IF null
    THEN [null |-> TRUE, bytes |-> << >>, out_len |-> 0]
    ELSE IF ~mallocOk
    THEN [null |-> TRUE, bytes |-> << >>, out_len |-> 0]
    ELSE [null |-> FALSE,
          bytes |-> PaddedMessage(input, ((Len(input) + 1 + 8 + SM3_BLOCK_SIZE - 1)
                                          \div SM3_BLOCK_SIZE) * SM3_BLOCK_SIZE, sz, sh),
          out_len |-> ((Len(input) + 1 + 8 + SM3_BLOCK_SIZE - 1)
                       \div SM3_BLOCK_SIZE) * SM3_BLOCK_SIZE]

\* message_expansion, step 1: W[0..15] (W[i] of the code is W[i + 1])
ExpansionParse(block) ==
    SubSeq([i \in 1..16 |->
              OR(OR(SHL(Word(0, block[(i - 1) * 4 + 1]), 24),
                    SHL(Word(0, block[(i - 1) * 4 + 2]), 16)),
                 OR(SHL(Word(0, block[(i - 1) * 4 + 3]), 8),
                    SHL(Word(0, block[(i - 1) * 4 + 4]), 0)))], 1, 16)

\* message_expansion, step 2, for one i in 16..67
ExpansionStep(W, i, sh) ==
    Append(W, XOR(XOR(P1(XOR(XOR(W[i - 16 + 1], W[i - 9 + 1]), ROL(W[i - 3 + 1], 15, sh)), sh),
                      ROL(W[i - 13 + 1], 7, sh)),
                  W[i - 6 + 1]))

RECURSIVE ExpansionW(_, _, _, _)
ExpansionW(W, lo, hi, sh) ==
    IF lo > hi \/ Len(W) # lo THEN W
    ELSE IF lo = hi THEN ExpansionStep(W, lo, sh)
    ELSE ExpansionW(ExpansionW(W, lo, (lo + hi) \div 2, sh), ((lo + hi) \div 2) + 1, hi, sh)

\* message_expansion, step 3: W1[i] = W[i] ^ W[i + 4], i = lo..hi, appended to W1
RECURSIVE ExpansionW1(_, _, _, _)
ExpansionW1(W1, W, lo, hi) ==
    IF lo > hi \/ Len(W1) # lo THEN W1
    ELSE IF lo = hi THEN Append(W1, XOR(W[lo + 1], W[lo + 4 + 1]))
    ELSE ExpansionW1(ExpansionW1(W1, W, lo, (lo + hi) \div 2), W, ((lo + hi) \div 2) + 1, hi)

\* D = C; C = ROL(B, 9); B = A; A = TT1; H = G; G = ROL(F, 19); F = E;
\* E = P0(TT2), one after the other
CompressAssign(V, TT1, TT2, sh) ==
    LET V1 == [V  EXCEPT ![4] = V[3]]
        V2 == [V1 EXCEPT ![3] = ROL(V1[2], 9, sh)]
        V3 == [V2 EXCEPT ![2] = V2[1]]
        V4 == [V3 EXCEPT ![1] = TT1]
        V5 == [V4 EXCEPT ![8] = V4[7]]
        V6 == [V5 EXCEPT ![7] = ROL(V5[6], 19, sh)]
        V7 == [V6 EXCEPT ![6] = V6[5]]
    IN  [V7 EXCEPT ![5] = P0(TT2, sh)]

\* one pass of the round loop of compress; V = <<A, B, C, D, E, F, G, H>>
CompressRound(V, W, W1, j, sh) ==
    LET A == V[1]
        B == V[2]
        C == V[3]
        D == V[4]
        E == V[5]
        F == V[6]
        G == V[7]
        H == V[8]
        SS1 == ROL(ADD(ADD(ROL(A, 12, sh), E), ROL(T(j), j, sh)), 7, sh)
        SS2 == XOR(SS1, ROL(A, 12, sh))
        TT1 == ADD(ADD(ADD(FF(A, B, C, j), D), SS2), W1[j + 1])
        TT2 == ADD(ADD(ADD(GG(E, F, G, j), H), SS1), W[j + 1])
    IN  CompressAssign(V, TT1, TT2, sh)

RECURSIVE CompressRounds(_, _, _, _, _, _)
CompressRounds(V, W, W1, lo, hi, sh) ==
    IF lo > hi \/ Len(V) # SM3_IV_NUM THEN V
    ELSE IF lo = hi THEN CompressRound(V, W, W1, lo, sh)
    ELSE CompressRounds(CompressRounds(V, W, W1, lo, (lo + hi) \div 2, sh),
                        W, W1, ((lo + hi) \div 2) + 1, hi, sh)

\* compress, after message_expansion has filled W: W1, the rounds, state[i] ^= ..
CompressExpanded(state, W, sh) ==
    XorState(state, CompressRounds(state, W, ExpansionW1(<< >>, W, 0, 63),
                                   0, SM3_ITER_ROUNDS - 1, sh))

\* compress(state, block): the new state
compress(state, block, sh) ==
    CompressExpanded(state, ExpansionW(ExpansionParse(block), 16, 67, sh), sh)

\* block number i (from 0) of the padded message: padded_msg + 64 * i
BlockAt(padded, i) == SubSeq(padded, SM3_BLOCK_SIZE * i + 1, SM3_BLOCK_SIZE * (i + 1))

\* for (i = 0; i < padded_len; i += SM3_BLOCK_SIZE) compress(state, padded_msg + i),
\* over the blocks lo..hi
RECURSIVE CompressBlocks(_, _, _, _, _)
CompressBlocks(state, padded, lo, hi, sh) ==
    IF lo > hi \/ Len(state) # SM3_IV_NUM THEN state
    ELSE IF lo = hi THEN compress(state, BlockAt(padded, lo), sh)
    ELSE CompressBlocks(CompressBlocks(state, padded, lo, (lo + hi) \div 2, sh),
                        padded, ((lo + hi) \div 2) + 1, hi, sh)

\* output[i * 4 + k] = (state[i] >> (24 - 8 * k)) & 0xFF for one state word
OutputWord(w) ==
    << SHR(w, 24)[2] % 256, SHR(w, 16)[2] % 256, SHR(w, 8)[2] % 256, SHR(w, 0)[2] % 256 >>

\* sm3_hash of sm3.cpp, step 4, and return 0
HashOutput(state, blocks) ==
    [ret |-> 0,
     output |-> OutputWord(state[1]) \o OutputWord(state[2]) \o OutputWord(state[3])
                \o OutputWord(state[4]) \o OutputWord(state[5]) \o OutputWord(state[6])
                \o OutputWord(state[7]) \o OutputWord(state[8]),
     state |-> state,
     blocks |-> blocks]

\* the caller's digest array before anything was written to it
Unwritten == << >>

\* sm3_hash of sm3.cpp after sm3_padding returned p; output is not null
\* (every caller in this repository passes an array)
HashPadded(p, sh) ==
    IF p.null \/ p.out_len = 0
    THEN [ret |-> -1, output |-> Unwritten, state |-> << >>, blocks |-> << >>]
    ELSE HashOutput(CompressBlocks(IV, p.bytes, 0, (p.out_len \div SM3_BLOCK_SIZE) - 1, sh),
                    SubSeq([i \in 1..(p.out_len \div SM3_BLOCK_SIZE) |-> BlockAt(p.bytes, i - 1)],
                           1, p.out_len \div SM3_BLOCK_SIZE))

\* int sm3_hash(input, input_len, output) of sm3.cpp: the value returned, the
\* output written, the final state and the blocks handed to compress
sm3_hash_cpp(input, null, mallocOk, sz, sh) ==
    HashPadded(sm3_padding(input, null, mallocOk, sz, sh), sh)

(***************************************************************************)
(* The callers' inputs                                                     *)
(***************************************************************************)
\* longest message fed to one context, in bytes
MaxLen == 130

\* the messages: byte i (from 1) of the message named by seed
Seeds == {97, 200}
Byte(seed, i) == (seed + 7 * i) % 256

\* bytes from + 1 .. from + n of the message
Msg(seed, from, n) == SubSeq([i \in 1..(from + n) |-> Byte(seed, i)], from + 1, from + n)

\* the lengths of the chunks handed to one sm3_update call
ChunkLens == {0, 1, 55, 56, 63, 64, 65, 128}

\* the arguments of the one-shot calls: a message and its length; a caller
\* holding no bytes may pass the null pointer with length 0
HashLens == {0, 3, 55, 56, 64, 130}
HashArgs ==
    {[seed |-> s, len |-> n, null |-> FALSE] : s \in Seeds, n \in HashLens}
    \cup {[seed |-> s, len |-> 0, null |-> TRUE] : s \in Seeds}
Input(a) == Msg(a.seed, 0, a.len)

\* a client that breaks the lifecycle: the input it feeds one context, the
\* sm3_final calls it makes on it, the bytes it feeds after the first of them
MaxMisuseLen == 66
MaxFinals == 2
MaxLate == 2

\* two threads, each hashing its own 3-byte message; the scheduler preempts a
\* running thread at most MaxSwitches times
Threads == {1, 2}
ThreadSeed == << 97, 200 >>
ThreadLen == 3
ThreadInput(t) == Msg(ThreadSeed[t], 0, ThreadLen)
MaxSwitches == 2

\* the files: their content is the message named by seed, size bytes long
FileSizes == {0, 1, 64, 130, 4100}
Files == {[seed |-> s, size |-> n] : s \in Seeds, n \in FileSizes}
\* the byte counts a failing fread returns
ShortCounts == {0, 1, 64}

\* the two implementations of the compression function
Impls == {"c", "cpp"}

\* the calls observed: block k (0 or 1) of the message of a seed, in an
\* sm3_update of n bytes on a new context
CompressCalls ==
    { [s |-> s, k |-> k, n |-> n] :
        s \in Seeds, k \in {0, 1}, n \in {SM3_BLOCK_SIZE, 2 * SM3_BLOCK_SIZE, MaxLen} }

\* the context at such a call
CallCtx(c, sh) ==
    [state  |-> sm3_update(sm3_init(CHOOSE g \in GarbageCtx : TRUE),
                           Msg(c.s, 0, SM3_BLOCK_SIZE * c.k), sh).ctx.state,
     bitlen |-> 8 * c.n,
     buffer |-> Msg(c.s, SM3_BLOCK_SIZE * c.k, SM3_BLOCK_SIZE)]

\* ROTLEFT(SM3_T[j], j) / ROL(T[j], j) as the macro expands in round j: the
\* count of the left shift, the count of the right shift, and the value
TShift(impl, j, sh) ==
    [left  |-> j,
     right |-> 32 - j,
     rot   |-> IF impl = "c" THEN ROTLEFT(SM3_T(j), j, sh) ELSE ROL(T(j), j, sh)]

NoShift == [left |-> 0, right |-> 0, rot |-> Zero32]

RoundEntry(impl, c) ==
    [impl |-> impl, pc |-> "call", ctx |-> c, old |-> c, W |-> << >>, W1 |-> << >>,
     V |-> c.state, prev |-> c.state, j |-> 0, tsh |-> NoShift]

RoundIdle == RoundEntry("c", CHOOSE g \in GarbageCtx : TRUE)

\* Wide unsigned integers, for the byte count of sm3_update at the full
\* width of its operands: a value below 2^80 is the tuple of its five
\* 16-bit limbs, most significant first.  (The byte-level model above keeps
\* bitlen as a plain number: its messages are MaxLen bytes at most.)
Wide(l4, l3, l2, l1, l0) == << l4, l3, l2, l1, l0 >>
Wide0 == Wide(0, 0, 0, 0, 0)

\* a + b, below 2^80
WideAdd(a, b) ==
    LET s0 == a[5] + b[5]
        s1 == a[4] + b[4] + (s0 \div 65536)
        s2 == a[3] + b[3] + (s1 \div 65536)
        s3 == a[2] + b[2] + (s2 \div 65536)
        s4 == a[1] + b[1] + (s3 \div 65536)
    IN  Wide(s4 % 65536, s3 % 65536, s2 % 65536, s1 % 65536, s0 % 65536)

\* a * 8, below 2^80
WideTimes8(a) ==
    LET s0 == a[5] * 8
        s1 == a[4] * 8 + (s0 \div 65536)
        s2 == a[3] * 8 + (s1 \div 65536)
        s3 == a[2] * 8 + (s2 \div 65536)
        s4 == a[1] * 8 + (s3 \div 65536)
    IN  Wide(s4 % 65536, s3 % 65536, s2 % 65536, s1 % 65536, s0 % 65536)

\* a converted to an unsigned type of 32 or 64 bits
WideTrunc(a, bits) ==
    IF bits = 32 THEN Wide(0, 0, 0, a[4], a[5]) ELSE Wide(0, a[2], a[3], a[4], a[5])

\* len * 8 of sm3_update: the int 8 is converted to size_t and the product is
\* a size_t
LenTimes8(len, sz) == WideTrunc(WideTimes8(len), sz)

\* ctx->bitlen += len * 8, bitlen a uint64_t
AddBitlen(bitlen, len, sz) == WideTrunc(WideAdd(bitlen, LenTimes8(len, sz)), 64)

\* the lengths passed to sm3_update: small ones, and those around the points
\* where len * 8 leaves 32 and 64 bits (2^29 - 1, 2^29, 2^32 - 1; for a
\* 64-bit size_t also 2^32, 2^61 - 1 and 2^61)
CountLens(sz) ==
    { Wide(0, 0, 0, 0, 0), Wide(0, 0, 0, 0, 1), Wide(0, 0, 0, 0, 64),
      Wide(0, 0, 0, 8191, 65535), Wide(0, 0, 0, 8192, 0), Wide(0, 0, 0, 65535, 65535) }
    \cup (IF sz = 64
          THEN { Wide(0, 0, 1, 0, 0), Wide(0, 8191, 65535, 65535, 65535),
                 Wide(0, 8192, 0, 0, 0) }
          ELSE { })

\* sm3_update calls followed per context
MaxCalls == 3

\* the count after sm3_init: bitlen, the bits passed since, the lengths
\* passed and the number of sm3_update calls
CountInit == [bitlen |-> Wide0, total |-> Wide0, last |-> Wide0, calls |-> 0]
CountIdle == CountInit

Min(a, b) == IF a < b THEN a ELSE b

(***************************************************************************)
(* State.  The build:                                                      *)
(*   sh     its out-of-range shift behaviour                               *)
(*   sz     the width of its size_t                                        *)
(* A client of the streaming API:                                          *)
(*   ctx    the SM3_CTX the client owns                                    *)
(*   digest the client's output array                                      *)
(* and, observing its calls (not program state):                           *)
(*   phase  Uninitialized / Ready / Finalized of the documented lifecycle  *)
(*   seed, pos   the message being fed and the bytes of it fed since init  *)
(*   log    the blocks handed to sm3_compress since init                   *)
(*   prior  right after sm3_init: the condition of the context it was      *)
(*          called on                                                      *)
(*   finals digests written since init                                     *)
(*   late   bytes by which bitlen grew after the first of them             *)
(*   wr     the indices of ctx->buffer written since init                  *)
(* The one-shot calls on one argument:                                     *)
(*   arg    the argument                                                   *)
(*   hc     what sm3_hash of sm3.c left                                    *)
(*   hcpp   what sm3_hash of sm3.cpp left and returned                     *)
(*   hstr   the string read through the pointer sm3_hash_string returned   *)
(*   hash_str   the static array of sm3_hash_string                        *)
(* Two threads calling sm3_hash_string:                                    *)
(*   th     per thread: position, local digest array, loop index and the   *)
(*          string it read through the returned pointer                    *)
(*   running, switches   the thread that took the last step; preemptions   *)
(* sm3_file_hash:                                                          *)
(*   file   the file named                                                 *)
(*   fh     position in the function, bytes delivered by fread so far,     *)
(*          whether a read failed, the local context, the value returned   *)
(*   fout   the caller's output array                                      *)
(* One call of the compression function, round by round:                   *)
(*   rnd    which implementation (sm3_compress of sm3.c, compress of       *)
(*          sm3.cpp), position in the function, the context as it is and   *)
(*          as it was at the call, W and W1, the working variables A..H    *)
(*          now and at the start of the last round, the rounds done, and   *)
(*          the operands of the last rotation of the round constant        *)
(* The byte count of sm3_update at the full width of its operands:         *)
(*   cnt    ctx->bitlen, the exact number of bits passed, the calls made   *)
(***************************************************************************)
VARIABLES sh, sz, ctx, digest, phase, seed, pos, log, prior, finals, late, wr,
          arg, hc, hcpp, hstr, hash_str, th, running, switches, file, fh, fout,
          rnd, cnt

vars == << sh, sz, ctx, digest, phase, seed, pos, log, prior, finals, late, wr,
           arg, hc, hcpp, hstr, hash_str, th, running, switches, file, fh, fout,
           rnd, cnt >>

buildVars  == << sh, sz >>
streamVars == << ctx, digest, phase, seed, pos, log, prior, finals, late, wr >>
hashVars   == << arg, hc, hcpp, hstr >>
concVars   == << th, running, switches >>
fileVars   == << file, fh, fout >>
coreVars   == << rnd, cnt >>

NotCalledC   == [called |-> FALSE, output |-> Unwritten, state |-> << >>, blocks |-> << >>]
NotCalledCpp == [called |-> FALSE, ret |-> 0, output |-> Unwritten,
                 state |-> << >>, blocks |-> << >>]
NotReturned  == "-"

\* the parts of the state before anything ran
StreamInit ==
    /\ ctx \in GarbageCtx
    /\ digest = Unwritten
    /\ phase = "uninit"
    /\ seed \in Seeds
    /\ pos = 0
    /\ log = << >>
    /\ prior = "-"
    /\ finals = 0
    /\ late = 0
    /\ wr = {}

HashInit ==
    /\ hc = NotCalledC
    /\ hcpp = NotCalledCpp
    /\ hstr = NotReturned

ConcInit ==
    /\ th = [t \in Threads |-> [pc |-> "call", dg |-> Unwritten, i |-> 0, got |-> NotReturned]]
    /\ running = 0
    /\ switches = 0

FileInit ==
    /\ fh = [pc |-> "call", pos |-> 0, err |-> FALSE,
             ctx |-> CHOOSE g \in GarbageCtx : TRUE, ret |-> 0]
    /\ fout = Unwritten

\* the parts that a specification does not run
StreamIdle ==
    /\ ctx = CHOOSE g \in GarbageCtx : TRUE
    /\ digest = Unwritten
    /\ phase = "uninit"
    /\ seed = CHOOSE s \in Seeds : TRUE
    /\ pos = 0
    /\ log = << >>
    /\ prior = "-"
    /\ finals = 0
    /\ late = 0
    /\ wr = {}
HashIdle ==
    /\ arg = (CHOOSE a \in HashArgs : TRUE)
    /\ HashInit
FileIdle ==
    /\ file = (CHOOSE f \in Files : TRUE)
    /\ FileInit
CoreIdle ==
    /\ rnd = RoundIdle
    /\ cnt = CountIdle

(***************************************************************************)
(* The streaming API                                                       *)
(***************************************************************************)
\* sm3_init(&ctx), for a new message and a new output array
CallInit(s) ==
    /\ ctx' = sm3_init(ctx)
    /\ digest' = Unwritten
    /\ phase' = "ready"
    /\ seed' = s
    /\ pos' = 0
    /\ log' = << >>
    /\ prior' = IF phase = "ready" /\ pos % SM3_BLOCK_SIZE # 0 THEN "midstream" ELSE phase
    /\ finals' = 0
    /\ late' = 0
    /\ wr' = {}
    /\ UNCHANGED << buildVars, hashVars, hash_str, concVars, fileVars, coreVars >>

\* sm3_update(&ctx, data, n) with the next n bytes of the message
CallUpdate(n) ==
    /\ phase # "uninit"
    /\ pos + n <= MaxLen
    /\ \E r \in {sm3_update(ctx, Msg(seed, pos, n), sh)} :
           /\ ctx' = r.ctx
           /\ log' = log \o r.blocks
           /\ wr' = wr \cup r.wr
           /\ late' = IF phase = "finalized"
                      THEN late + ((r.ctx.bitlen - ctx.bitlen) \div 8)
                      ELSE late
    /\ pos' = pos + n
    /\ prior' = "-"
    /\ UNCHANGED << digest, phase, seed, finals >>
    /\ UNCHANGED << buildVars, hashVars, hash_str, concVars, fileVars, coreVars >>

\* sm3_final(&ctx, digest)
CallFinal ==
    /\ phase # "uninit"
    /\ \E r \in {sm3_final(ctx, sh)} :
           /\ ctx' = r.ctx
           /\ digest' = r.digest
           /\ log' = log \o r.blocks
           /\ wr' = wr \cup r.wr
           /\ finals' = IF Len(r.digest) = SM3_DIGEST_SIZE THEN finals + 1 ELSE finals
    /\ phase' = "finalized"
    /\ prior' = "-"
    /\ UNCHANGED << seed, pos, late >>
    /\ UNCHANGED << buildVars, hashVars, hash_str, concVars, fileVars, coreVars >>

\* the callers of this repository (sm3_hash, sm3_file_hash) and every client
\* that keeps to init -> update* -> final: update and final only when Ready
Init ==
    /\ sh \in ShiftModes
    /\ sz = 64
    /\ StreamInit
    /\ HashIdle
    /\ hash_str = HashStrInit
    /\ ConcInit
    /\ FileIdle
    /\ CoreIdle

Next ==
    \/ \E s \in Seeds : CallInit(s)
    \/ \E n \in ChunkLens : phase = "ready" /\ CallUpdate(n)
    \/ phase = "ready" /\ CallFinal

Spec == Init /\ [][Next]_vars

\* a client that does not keep to the lifecycle: nothing in sm3_update or
\* sm3_final looks at what was called before
NextAny ==
    \/ \E s \in Seeds : CallInit(s)
    \/ \E n \in ChunkLens :
           /\ pos + n <= MaxMisuseLen
           /\ phase = "finalized" => late + n <= MaxLate
           /\ CallUpdate(n)
    \/ finals < MaxFinals /\ CallFinal

SpecAny == Init /\ [][NextAny]_vars

(***************************************************************************)
(* The one-shot calls, each made at most once on the argument              *)
(***************************************************************************)
\* sm3_hash(input, len, output) of sm3.c
CallHashC ==
    /\ ~hc.called
    /\ \E r \in {sm3_hash(Input(arg), sh)} :
           hc' = [called |-> TRUE, output |-> r.output, state |-> r.state,
                  blocks |-> r.blocks]
    /\ UNCHANGED << arg, hcpp, hstr, hash_str >>
    /\ UNCHANGED << buildVars, streamVars, concVars, fileVars, coreVars >>

\* sm3_hash(input, len, output) of sm3.cpp; malloc returns memory or does not
CallHashCpp(mallocOk) ==
    /\ ~hcpp.called
    /\ \E r \in {sm3_hash_cpp(Input(arg), arg.null, mallocOk, sz, sh)} :
           hcpp' = [called |-> TRUE, ret |-> r.ret, output |-> r.output,
                    state |-> r.state, blocks |-> r.blocks]
    /\ UNCHANGED << arg, hc, hstr, hash_str >>
    /\ UNCHANGED << buildVars, streamVars, concVars, fileVars, coreVars >>

\* p = sm3_hash_string(input, len), and the caller reads the string at p
CallHashString ==
    /\ hstr = NotReturned
    /\ hash_str' = sm3_hash_string(hash_str, Input(arg), sh)
    /\ hstr' = CString(hash_str', 1)
    /\ UNCHANGED << arg, hc, hcpp >>
    /\ UNCHANGED << buildVars, streamVars, concVars, fileVars, coreVars >>

InitHash ==
    /\ sh \in ShiftModes
    /\ sz \in SizeBits
    /\ StreamIdle
    /\ arg \in HashArgs
    /\ HashInit
    /\ hash_str = HashStrInit
    /\ ConcInit
    /\ FileIdle
    /\ CoreIdle

NextHash ==
    \/ CallHashC
    \/ \E mallocOk \in BOOLEAN : CallHashCpp(mallocOk)
    \/ CallHashString

SpecHash == InitHash /\ [][NextHash]_vars

(***************************************************************************)
(* Two threads, each calling p = sm3_hash_string(its input) and then        *)
(* reading the string at p.  A thread's steps are the call of sm3_hash     *)
(* into its local digest array, each snprintf into the static hash_str,    *)
(* the terminating store with the return, and the caller's read.           *)
(***************************************************************************)
Scheduled(t) == running \in {0, t} \/ switches < MaxSwitches

Schedule(t) ==
    /\ running' = t
    /\ switches' = IF running \in {0, t} THEN switches ELSE switches + 1

\* sm3_hash(input, input_len, digest): context and digest are the thread's own
ThreadHash(t) ==
    /\ th[t].pc = "call"
    /\ Scheduled(t)
    /\ th' = [th EXCEPT ![t].dg = sm3_hash(ThreadInput(t), sh).output,
                        ![t].i = 0,
                        ![t].pc = "format"]
    /\ Schedule(t)
    /\ UNCHANGED << hash_str, buildVars, streamVars, hashVars, fileVars, coreVars >>

\* snprintf(hash_str + i * 2, 3, "%02x", digest[i]); i++
ThreadFormat(t) ==
    /\ th[t].pc = "format"
    /\ Scheduled(t)
    /\ hash_str' = FormatByte(hash_str, th[t].dg, th[t].i)
    /\ th' = [th EXCEPT ![t].i = th[t].i + 1,
                        ![t].pc = IF th[t].i + 1 < SM3_DIGEST_SIZE THEN "format"
                                  ELSE "terminate"]
    /\ Schedule(t)
    /\ UNCHANGED << buildVars, streamVars, hashVars, fileVars, coreVars >>

\* hash_str[SM3_HASH_SIZE - 1] = '\0'; return hash_str
ThreadTerminate(t) ==
    /\ th[t].pc = "terminate"
    /\ Scheduled(t)
    /\ hash_str' = Terminate(hash_str)
    /\ th' = [th EXCEPT ![t].pc = "returned"]
    /\ Schedule(t)
    /\ UNCHANGED << buildVars, streamVars, hashVars, fileVars, coreVars >>

\* the caller reads the string at the pointer returned
ThreadRead(t) ==
    /\ th[t].pc = "returned"
    /\ Scheduled(t)
    /\ th' = [th EXCEPT ![t].got = CString(hash_str, 1), ![t].pc = "done"]
    /\ Schedule(t)
    /\ UNCHANGED << hash_str, buildVars, streamVars, hashVars, fileVars, coreVars >>

InitConc ==
    /\ sh \in ShiftModes
    /\ sz = 64
    /\ StreamIdle
    /\ HashIdle
    /\ hash_str = HashStrInit
    /\ ConcInit
    /\ FileIdle
    /\ CoreIdle

NextConc ==
    \/ \E t \in Threads : ThreadHash(t)
    \/ \E t \in Threads : ThreadFormat(t)
    \/ \E t \in Threads : ThreadTerminate(t)
    \/ \E t \in Threads : ThreadRead(t)

SpecConc == InitConc /\ [][NextConc]_vars

(***************************************************************************)
(* sm3_file_hash(filename, output).  The file system decides whether the   *)
(* open succeeds and what each fread delivers: the bytes asked for as far  *)
(* as the file has them, or, failing, fewer; after a failed read every     *)
(* later fread delivers nothing.                                           *)
(***************************************************************************)
\* fopen(filename, "rb"); on failure return -1, else sm3_init(&ctx)
FileOpen(ok) ==
    /\ fh.pc = "call"
    /\ fh' = IF ok
             THEN [fh EXCEPT !.pc = "loop", !.ctx = sm3_init(fh.ctx)]
             ELSE [fh EXCEPT !.pc = "returned", !.ret = -1]
    /\ UNCHANGED << file, fout >>
    /\ UNCHANGED << buildVars, streamVars, hashVars, hash_str, concVars, coreVars >>

\* what fread(buffer, 1, sizeof(buffer), file) may return: k bytes, failing or not
Fread(k, fail) ==
    IF fh.err THEN k = 0 /\ ~fail
    ELSE IF fail THEN k \in ShortCounts /\ k <= Min(FILE_BUFFER_SIZE, file.size - fh.pos)
    ELSE k = Min(FILE_BUFFER_SIZE, file.size - fh.pos)

\* one pass of the loop: fread returned k > 0 bytes; sm3_update(&ctx, buffer, k)
FileReadChunk(k, fail) ==
    /\ fh.pc = "loop"
    /\ k > 0
    /\ Fread(k, fail)
    /\ fh' = [fh EXCEPT !.ctx = sm3_update(fh.ctx, Msg(file.seed, fh.pos, k), sh).ctx,
                        !.pos = fh.pos + k,
                        !.err = fail]
    /\ UNCHANGED << file, fout >>
    /\ UNCHANGED << buildVars, streamVars, hashVars, hash_str, concVars, coreVars >>

\* fread returned 0: the loop ends; sm3_final(&ctx, output); fclose; return 0
FileReadEnd(fail) ==
    /\ fh.pc = "loop"
    /\ Fread(0, fail)
    /\ \E r \in {sm3_final(fh.ctx, sh)} :
           /\ fh' = [fh EXCEPT !.ctx = r.ctx, !.pc = "returned", !.ret = 0,
                               !.err = fh.err \/ fail]
           /\ fout' = r.digest
    /\ UNCHANGED file
    /\ UNCHANGED << buildVars, streamVars, hashVars, hash_str, concVars, coreVars >>

InitFile ==
    /\ sh \in ShiftModes
    /\ sz = 64
    /\ StreamIdle
    /\ HashIdle
    /\ hash_str = HashStrInit
    /\ ConcInit
    /\ file \in Files
    /\ FileInit
    /\ CoreIdle

NextFile ==
    \/ \E ok \in BOOLEAN : FileOpen(ok)
    \/ \E k \in ShortCounts \cup {Min(FILE_BUFFER_SIZE, file.size - fh.pos)}, fail \in BOOLEAN :
           FileReadChunk(k, fail)
    \/ \E fail \in BOOLEAN : FileReadEnd(fail)

SpecFile == InitFile /\ [][NextFile]_vars

(***************************************************************************)
(* One call of the compression function, a round at a time.  sm3_update    *)
(* calls sm3_compress(ctx, ctx->buffer) after adding the length of its     *)
(* whole argument to ctx->bitlen, so at the call the context holds the     *)
(* state after the blocks before, the pending block, and a bit count that  *)
(* depends on how much the caller passed.  compress of sm3.cpp is given    *)
(* the same registers and block (its caller keeps them in local arrays).   *)
(***************************************************************************)
\* entry: the block is parsed and expanded into W and W1 (sm3.c computes W1
\* by the same W[j] ^ W[j + 4] as sm3.cpp), A..H are loaded from the state
RoundCall ==
    /\ rnd.pc = "call"
    /\ \E w \in { IF rnd.impl = "c"
                  THEN ExpandW(ParseBlock(rnd.ctx.buffer), 16, 67, sh)
                  ELSE ExpansionW(ExpansionParse(rnd.ctx.buffer), 16, 67, sh) } :
           rnd' = [rnd EXCEPT !.pc = "rounds", !.W = w,
                              !.W1 = ExpansionW1(<< >>, w, 0, 63),
                              !.V = rnd.ctx.state, !.prev = rnd.ctx.state, !.j = 0]
    /\ UNCHANGED << buildVars, streamVars, hashVars, hash_str, concVars, fileVars, cnt >>

\* round j of the loop
RoundStep ==
    /\ rnd.pc = "rounds"
    /\ rnd.j < 64
    /\ rnd' = [rnd EXCEPT !.V = IF rnd.impl = "c"
                                THEN Round(rnd.V, rnd.W, rnd.j, sh)
                                ELSE CompressRound(rnd.V, rnd.W, rnd.W1, rnd.j, sh),
                          !.prev = rnd.V,
                          !.tsh = TShift(rnd.impl, rnd.j, sh),
                          !.j = rnd.j + 1]
    /\ UNCHANGED << buildVars, streamVars, hashVars, hash_str, concVars, fileVars, cnt >>

\* after the loop: the state is XORed with A..H and the function returns
RoundReturn ==
    /\ rnd.pc = "rounds"
    /\ rnd.j = 64
    /\ rnd' = [rnd EXCEPT !.ctx = CompressStore(rnd.ctx, rnd.V), !.pc = "done"]
    /\ UNCHANGED << buildVars, streamVars, hashVars, hash_str, concVars, fileVars, cnt >>

InitRound ==
    /\ sh \in ShiftModes
    /\ sz = 64
    /\ StreamIdle
    /\ HashIdle
    /\ hash_str = HashStrInit
    /\ ConcInit
    /\ FileIdle
    /\ rnd \in { RoundEntry(impl, CallCtx(c, sh)) : impl \in Impls, c \in CompressCalls }
    /\ cnt = CountIdle

NextRound ==
    \/ RoundCall
    \/ RoundStep
    \/ RoundReturn

SpecRound == InitRound /\ [][NextRound]_vars

(***************************************************************************)
(* The bit count of a context, at the full width of size_t and uint64_t:   *)
(* sm3_init, then sm3_update calls of any length a size_t holds.  Only     *)
(* the count is followed; total is the number of bits really passed.       *)
(***************************************************************************)
\* sm3_init: ctx->bitlen = 0
CountReset ==
    /\ cnt.calls > 0
    /\ cnt' = CountInit
    /\ UNCHANGED << buildVars, streamVars, hashVars, hash_str, concVars, fileVars, rnd >>

\* sm3_update(ctx, data, len): ctx->bitlen += len * 8
CountUpdate(len) ==
    /\ cnt.calls < MaxCalls
    /\ cnt' = [bitlen |-> AddBitlen(cnt.bitlen, len, sz),
               total  |-> WideAdd(cnt.total, WideTimes8(len)),
               last   |-> len,
               calls  |-> cnt.calls + 1]
    /\ UNCHANGED << buildVars, streamVars, hashVars, hash_str, concVars, fileVars, rnd >>

InitCount ==
    /\ sh \in ShiftModes
    /\ sz \in SizeBits
    /\ StreamIdle
    /\ HashIdle
    /\ hash_str = HashStrInit
    /\ ConcInit
    /\ FileIdle
    /\ rnd = RoundIdle
    /\ cnt = CountInit

NextCount ==
    \/ CountReset
    \/ \E len \in CountLens(sz) : CountUpdate(len)

SpecCount == InitCount /\ [][NextCount]_vars

(***************************************************************************)
(* Properties                                                              *)
(***************************************************************************)

\* C1: incremental equivalence -- however the message was split into
\* sm3_update calls (empty chunks, chunks straddling block boundaries), the
\* digest sm3_final writes is the digest of sm3_init; sm3_update(whole
\* message); sm3_final.
C1_IncrementalEquivalence ==
    phase = "finalized" => digest = sm3_hash(Msg(seed, 0, pos), sh).output

\* C1 happens: a message longer than two blocks, fed in chunks that left
\* pending bytes behind, was finalized
C1_Witness ==
    /\ phase = "finalized"
    /\ pos = 129
    /\ Len(log) = 3

\* C2: Finalized is terminal -- a finalized context ingests no further input
\* and emits no second digest until sm3_init is called on it again.
C2_FinalizedIsTerminal ==
    /\ late = 0
    /\ finals <= 1

\* C3: the whole-message variant (sm3.cpp) hands to compression the same
\* blocks, and produces the same digest, as the streaming variant (sm3.c), on
\* every input including the empty one.
C3_VariantsAgree ==
    (hc.called /\ hcpp.called) =>
        /\ hcpp.ret = 0
        /\ hcpp.blocks = hc.blocks
        /\ hcpp.output = hc.output

\* C4: the one-shot hash has no failure modes -- whatever the input, it
\* completes, reports no error and has written the digest.
C4_NoFailureModes ==
    /\ hc.called => Len(hc.output) = SM3_DIGEST_SIZE
    /\ hcpp.called => (hcpp.ret = 0 /\ Len(hcpp.output) = SM3_HASH_SIZE_cpp)

\* C5: concurrent callers share no mutable data -- under every interleaving
\* each thread ends with the digest and the hex string of its own input.
C5_OwnResult ==
    \A t \in Threads :
        th[t].pc = "done" =>
            /\ th[t].dg = sm3_hash(ThreadInput(t), sh).output
            /\ th[t].got = CString(sm3_hash_string(HashStrInit, ThreadInput(t), sh), 1)

\* C6: sm3_file_hash reports every I/O failure -- it returns 0 only when the
\* file was opened and read to its end with no read failing, and when it
\* returns -1 it has not written the output.
C6_FileErrorsReported ==
    /\ (fh.pc = "returned" /\ fh.ret = 0) => (~fh.err /\ fh.pos = file.size)
    /\ (fh.pc = "returned" /\ fh.ret = -1) => fout = Unwritten

\* C7: known-answer vector -- the hex string of the hash of the empty input
\* is 1ab21d8355cfa17f8e61194831e81a8f22bec8c728fefb747ed035eb5082aa2.
C7_KnownAnswerEmpty ==
    (hstr # NotReturned /\ arg.len = 0) =>
        hstr = "1ab21d8355cfa17f8e61194831e81a8f22bec8c728fefb747ed035eb5082aa2"

\* digest d is 32 bytes, byte 4i + k of it being (st[i] >> (24 - 8k)) mod 256
BigEndianOf(d, st) ==
    /\ Len(d) = 32
    /\ Len(st) = 8
    /\ \A i \in 0..7 : \A k \in 0..3 :
           d[4 * i + k + 1] = SHR(st[i + 1], 24 - 8 * k)[2] % 256

\* C8: the digest is always exactly 32 bytes, whatever the input length, and
\* is the big-endian serialization of the 8 final state words (both in
\* sm3_final of sm3.c and in sm3_hash of sm3.cpp when it writes one).
C8_DigestBigEndian ==
    /\ hc.called => BigEndianOf(hc.output, hc.state)
    /\ (hcpp.called /\ hcpp.ret = 0) => BigEndianOf(hcpp.output, hcpp.state)

\* C8 happens: both variants have hashed the empty input
C8_Witness ==
    /\ arg.len = 0
    /\ hc.called
    /\ hcpp.called
    /\ hcpp.ret = 0

\* C9: sm3_init on a context in any prior condition (uninitialized garbage,
\* mid-stream with a partial block, already finalized) leaves the fresh
\* state: the 8 IV words, bit count 0, 64 zero pending bytes -- the very
\* context sm3_init leaves from a brand-new one, so every hash computed from
\* it is the hash computed with a brand-new context.
C9_InitIsFresh ==
    prior # "-" =>
        /\ ctx.state = << Word(29568, 5743),  Word(18708, 45753), Word(5924, 17111),
                          Word(55946, 1536),  Word(43375, 12476), Word(5681, 14506),
                          Word(58253, 61005), Word(45307, 3662) >>
        /\ ctx.bitlen = 0
        /\ Len(ctx.buffer) = 64
        /\ \A i \in 1..64 : ctx.buffer[i] = 0
        /\ \A g \in GarbageCtx : ctx = sm3_init(g)

\* C9 happens: sm3_init was just called on a context that held a partial block
C9_Witness ==
    /\ prior = "midstream"
    /\ phase = "ready"
    /\ pos = 0

\* C10: buffer-fill invariant -- between calls, after sm3_init and any
\* sm3_update calls, (bitlen / 8) mod 64 is in 0..63, is the number of bytes
\* ingested since the last compression, and the buffer starts with exactly
\* those bytes in input order.
C10_BufferFill ==
    phase = "ready" =>
        /\ (ctx.bitlen \div 8) % 64 \in 0..63
        /\ (ctx.bitlen \div 8) % 64 = pos - 64 * Len(log)
        /\ SubSeq(ctx.buffer, 1, (ctx.bitlen \div 8) % 64)
             = Msg(seed, 64 * Len(log), pos - 64 * Len(log))

\* C10 happens: 63 bytes are pending after one compression
C10_Witness ==
    /\ phase = "ready"
    /\ Len(log) = 1
    /\ pos = 127

\* C11: over sm3_update calls totalling n bytes, compression is invoked
\* exactly floor(n / 64) times, the k-th time on input bytes 64(k-1) .. 64k-1
\* in order, whatever the chunking: no block twice, none skipped.
C11_BlocksCompressedOnce ==
    phase = "ready" =>
        /\ Len(log) = pos \div 64
        /\ \A k \in 1..Len(log) : log[k] = Msg(seed, 64 * (k - 1), 64)

\* C11 happens: 130 bytes were fed in three chunks or more, leaving two
\* compressions behind
C11_Witness ==
    /\ phase = "ready"
    /\ pos = 130
    /\ Len(log) = 2

\* C12: sm3_final compresses once when 0..55 bytes are pending and twice
\* when 56..63 are, so an n-byte message is compressed ceil((n + 9) / 64)
\* times in all; lengths 55, 56, 63, 64, 65 give 1, 2, 2, 2, 2.
C12_FinalCompressions ==
    phase = "finalized" =>
        /\ \A k \in 1..(pos \div 64) : log[k] = Msg(seed, 64 * (k - 1), 64)
        /\ Len(log) - (pos \div 64) = (IF pos % 64 <= 55 THEN 1 ELSE 2)
        /\ Len(log) = (pos + 9 + 63) \div 64
        /\ pos = 55 => Len(log) = 1
        /\ pos \in {56, 63, 64, 65} => Len(log) = 2

\* C12 happens: a 56-byte message was finalized
C12_Witness ==
    /\ phase = "finalized"
    /\ pos = 56

\* the 64-bit big-endian bytes of a bit count v below 2^31
BigEndian64(v) ==
    << 0, 0, 0, 0, (v \div 16777216) % 256, (v \div 65536) % 256, (v \div 256) % 256, v % 256 >>

\* the blocks of log after the first n, end to end
PaddingBlocks(n) ==
    IF Len(log) = n + 1 THEN log[n + 1]
    ELSE IF Len(log) = n + 2 THEN log[n + 1] \o log[n + 2]
    ELSE << >>

\* C13: the blocks sm3_final compresses are the pending message bytes, one
\* 0x80, then only 0x00 (nothing stale from earlier blocks), and in the last
\* 8 bytes the bit count of the updates as a big-endian 64-bit integer, which
\* the padding leaves unchanged; the empty input gives one block: 0x80, zeros
\* through byte 55, a zero length field.
C13_PaddingContent ==
    phase = "finalized" =>
        /\ ctx.bitlen = 8 * pos
        /\ Len(PaddingBlocks(pos \div 64)) \in {64, 128}
        /\ PaddingBlocks(pos \div 64)
             = Msg(seed, 64 * (pos \div 64), pos % 64) \o << 128 >>
               \o [i \in 1..(Len(PaddingBlocks(pos \div 64)) - (pos % 64) - 9) |-> 0]
               \o BigEndian64(8 * pos)
        /\ pos = 0 => log = << << 128 >> \o [i \in 1..63 |-> 0] >>

\* C13 happens: a 65-byte message was finalized, the buffer still holding
\* bytes 1..63 of the first block behind the one pending byte
C13_Witness ==
    /\ phase = "finalized"
    /\ pos = 65
\* C18: in every call sequence init -> update* -> final, every index of
\* ctx->buffer that sm3_update and sm3_final write (data bytes, the 0x80, the
\* zero fill, the 8 length bytes) is in 0..63
C18_BufferBounds == \A i \in wr : 0 <= i /\ i < SM3_BLOCK_SIZE

\* a finalized message of 130 bytes: the data bytes went through index 63
\* twice, idx was reset to 0 each time, and the 0x80 went to index 2
C18_Witness ==
    /\ phase = "finalized"
    /\ pos = 130
    /\ wr = 0..63
    /\ ctx.buffer[3] = 128

\* x rotated left by n bits, n in 0..31
RotateLeft32(x, n) == IF n = 0 THEN x ELSE OR(SHL(x, n), SHR(x, 32 - n))

\* C14: in every round j the round constant is rotated left by j mod 32:
\* both shift counts of the rotation are counts defined for a 32-bit word
\* (0..31), and the value is T[j] rotated by j mod 32 (T[j] itself at j = 0
\* and j = 32)
C14_RotationWellDefined ==
    rnd.pc = "rounds" /\ rnd.j > 0 =>
        /\ rnd.tsh.left \in 0..31
        /\ rnd.tsh.right \in 0..31
        /\ rnd.tsh.rot = RotateLeft32(SM3_T(rnd.j - 1), (rnd.j - 1) % 32)

\* the round's update taken from one snapshot V = <<A, ..., H>> of the
\* round's start
SnapshotRound(V, W, j, m) ==
    LET SS1 == ROTLEFT(ADD(ADD(ROTLEFT(V[1], 12, m), V[5]), ROTLEFT(SM3_T(j), j, m)), 7, m)
        SS2 == XOR(SS1, ROTLEFT(V[1], 12, m))
        TT1 == ADD(ADD(ADD(ff(V[1], V[2], V[3], j), V[4]), SS2), XOR(W[j + 1], W[j + 5]))
        TT2 == ADD(ADD(ADD(gg(V[5], V[6], V[7], j), V[8]), SS1), W[j + 1])
    IN  << TT1, V[1], ROTLEFT(V[2], 9, m), V[3], p0(TT2, m), V[5], ROTLEFT(V[6], 19, m), V[7] >>

\* C16: the eight assignments of a round, D, C, B, A, H, G, F, E in that
\* order, leave (TT1, A, ROTL(B,9), C, P0(TT2), E, ROTL(F,19), G) with A..H
\* and SS1, SS2, TT1, TT2 all taken from the values at the round's start
C16_SnapshotUpdate ==
    rnd.pc = "rounds" /\ rnd.j > 0 => rnd.V = SnapshotRound(rnd.prev, rnd.W, rnd.j - 1, sh)

\* round 16, the first with the majority / choice functions, of sm3_compress
\* is done and changed all eight working variables
C16_Witness ==
    /\ rnd.pc = "rounds"
    /\ rnd.impl = "c"
    /\ rnd.j = 17
    /\ \A i \in 1..8 : rnd.V[i] # rnd.prev[i]

\* C17: compression is a function of the old registers and the block only:
\* whatever bitlen the context held, the new state is the compression of
\* (old state, block), new state[i] = old state[i] XOR working variable i,
\* and bitlen and the buffer, which is the block read, are as they were
C17_CompressionPure ==
    rnd.pc = "done" =>
        /\ rnd.ctx.state = (IF rnd.impl = "c"
                            THEN sm3_compress(rnd.old.state, rnd.old.buffer, sh)
                            ELSE compress(rnd.old.state, rnd.old.buffer, sh))
        /\ \A i \in 1..8 : rnd.ctx.state[i] = XOR(rnd.old.state[i], rnd.V[i])
        /\ rnd.ctx.bitlen = rnd.old.bitlen
        /\ rnd.ctx.buffer = rnd.old.buffer

\* sm3_compress returned from the second block of a message, called by an
\* sm3_update that had added more than the two blocks to bitlen
C17_Witness ==
    /\ rnd.pc = "done"
    /\ rnd.impl = "c"
    /\ rnd.old.state # SM3_IV
    /\ rnd.old.bitlen = 8 * MaxLen
    /\ rnd.ctx.state # rnd.old.state

\* C15: after sm3_init and sm3_update calls of lengths l1..lk, bitlen is
\* 8 * (l1 + ... + lk) as a 64-bit value, for every li a size_t holds, a
\* 32-bit size_t included
C15_ExactBitCount == cnt.bitlen = WideTrunc(cnt.total, 64)

====
